---- MODULE Spec2Model ----
(***************************************************************************)
(* Verification model of subsocks: the server-side WebSocket stripper     *)
(* (wsStripper, httpRes4WS) and the client launcher (launchClient,        *)
(* getClientTLSConfig, loadCA, getClientSSHConfit).                       *)
(***************************************************************************)
EXTENDS Integers, Sequences, FiniteSets, TLC

VARIABLES
    res,        \* the httpRes4WS under test (fields of the struct, conn = bytes written)
    firstStatus, \* status code of the call that first asked for the head (0: none yet)
    tlsIn,      \* getClientTLSConfig's arguments: [addr, ca, skipVerify]
    tlsOut,     \* its result [config, err], or NotYet
    tlsPeer,    \* the last TLS handshake on that config: [chain, accepted], or NotYet
    sshIn,      \* getClientSSHConfit's arguments: [username, password, key, passphrase]
    sshOut,     \* its result [conf, err, logged], or NotYet
    sshPeer,    \* the last host key offered to the config: [hostKey, accepted], or NotYet
    lpc,        \* launchClient's position
    cli,        \* the client being configured by launchClient
    exitCode,   \* the process's exit code, -1 while it runs
    log,        \* lines written to the standard logger
    failure,    \* which kind of error launchClient met: "none", "config", "runtime"
    net,        \* what the client has sent and the server has not read off the socket yet
    out,        \* what the server has written to the connection
    clientClosed, \* the client has closed its side
    wsConn,     \* wsStripper.wsConn: 0 is nil, k the k-th upgraded connection
    readErr,    \* the websocket connection's sticky read error
    buf,        \* wsStripper.buf: staged bytes of a message that did not fit
    pc,         \* position of each goroutine inside Read / Write
    arg,        \* argument of each goroutine's current or last call
    last,       \* what each goroutine's last call returned
    sentBytes,  \* payload bytes of every message the client has sent, in order
    readBytes,  \* bytes returned by the Read calls so far, in order
    wlog,       \* the completed Write calls: argument and returned values
    hsLog,      \* the requests handshake has read, with what it did to each
    upgrades,   \* handshakes that completed successfully
    hsAteFrame  \* a handshake consumed a websocket frame as if it were a request

resVars == <<res, firstStatus>>
tlsVars == <<tlsIn, tlsOut, tlsPeer>>
sshVars == <<sshIn, sshOut, sshPeer>>
launchVars == <<lpc, cli, exitCode, failure>>
wsVars == <<net, out, clientClosed, wsConn, readErr, buf, pc, arg, last, sentBytes,
            readBytes, wlog, hsLog, upgrades, hsAteFrame>>

vars == <<res, firstStatus, tlsIn, tlsOut, tlsPeer, sshIn, sshOut, sshPeer,
          lpc, cli, exitCode, log, failure,
          net, out, clientClosed, wsConn, readErr, buf, pc, arg, last, sentBytes,
          readBytes, wlog, hsLog, upgrades, hsAteFrame>>

NotYet == [pending |-> TRUE]

-----------------------------------------------------------------------------
(* Byte streams are sequences of tokens; every token is a string.  The     *)
(* token "CRLF" stands for the two bytes \r\n, "x" for one body byte.      *)

MaxBody == 2       \* longest body slice handed to httpRes4WS.Write
MaxResWrites == 3  \* httpRes4WS.Write calls per response

Min(a, b) == IF a < b THEN a ELSE b

RECURSIVE Repeat(_, _)
Repeat(tok, n) == IF n = 0 THEN <<>> ELSE <<tok>> \o Repeat(tok, n - 1)

DigitChar == <<"0", "1", "2", "3", "4", "5", "6", "7", "8", "9">>

\* strconv.FormatInt(n, 10) for n >= 0: the decimal digits, most significant first
RECURSIVE FormatInt(_)
FormatInt(n) ==
    IF n < 10 THEN <<DigitChar[n + 1]>>
    ELSE FormatInt(n \div 10) \o <<DigitChar[(n % 10) + 1]>>

DigitVal(c) == CHOOSE d \in 0..9 : DigitChar[d + 1] = c

IsDigit(c) == \E d \in 0..9 : DigitChar[d + 1] = c

RECURSIVE DigitsValue(_)
DigitsValue(s) ==
    IF s = <<>> THEN 0
    ELSE 10 * DigitsValue(SubSeq(s, 1, Len(s) - 1)) + DigitVal(s[Len(s)])

\* strconv.ParseInt(cl, 10, 64): optional sign, then at least one digit
ParseInt(s) ==
    LET signed == s # <<>> /\ s[1] \in {"-", "+"}
        digits == IF signed THEN Tail(s) ELSE s
    IN  IF digits = <<>> \/ \E i \in 1..Len(digits) : ~IsDigit(digits[i])
        THEN [ok |-> FALSE, v |-> 0]
        ELSE [ok |-> TRUE,
              v  |-> IF signed /\ s[1] = "-" THEN 0 - DigitsValue(digits)
                     ELSE DigitsValue(digits)]

\* http.StatusText
StatusText(code) ==
    CASE code = 101 -> "Switching Protocols"
      [] code = 200 -> "OK"
      [] code = 400 -> "Bad Request"
      [] code = 404 -> "Not Found"
      [] OTHER      -> ""

StatusCodes == {200, 400, 299}

\* header keys in the order http.Header.Write emits them (sorted)
HeaderKeys == <<"Content-Length", "Content-Type">>

HeaderValues(k) ==
    IF k = "Content-Length"
    THEN {<<>>, <<"1">>, <<"2">>, <<"-", "1">>, <<"z">>}
    ELSE {<<>>, <<"text">>}

NoHeader == [k \in {HeaderKeys[i] : i \in 1..Len(HeaderKeys)} |-> <<>>]

\* http.Header.Write: one "Key: value\r\n" line per key that is set
RECURSIVE HeaderLines(_, _)
HeaderLines(h, i) ==
    IF i > Len(HeaderKeys) THEN <<>>
    ELSE (IF h[HeaderKeys[i]] = <<>> THEN <<>>
          ELSE <<HeaderKeys[i], ": ">> \o h[HeaderKeys[i]] \o <<"CRLF">>)
         \o HeaderLines(h, i + 1)

newHTTPRes4WS ==
    [proto |-> "HTTP/1.1", header |-> NoHeader, contentLength |-> -1,
     statusCode |-> 0, wroteHeader |-> FALSE, written |-> 0, conn |-> <<>>,
     heads |-> 0, body |-> 0, n |-> 0, err |-> "nil", calls |-> 0]

\* the bytes WriteHeader assembles in buf and sends with buf.WriteTo(r.conn)
HeadBytes(proto, code, h) ==
    <<proto, " ">> \o FormatInt(code) \o <<" ">>
    \o (IF StatusText(code) = "" THEN <<>> ELSE <<StatusText(code)>>)
    \o HeaderLines(h, 1)
    \o <<"CRLF">>

\* httpRes4WS.WriteHeader
WriteHeader(r, statusCode) ==
    IF r.wroteHeader THEN r
    ELSE LET cl == r.header["Content-Length"]
             p  == ParseInt(cl)
             h  == IF cl # <<>> /\ ~(p.ok /\ p.v >= 0)
                   THEN [r.header EXCEPT !["Content-Length"] = <<>>]
                   ELSE r.header
         IN  [r EXCEPT !.wroteHeader = TRUE,
                       !.statusCode = statusCode,
                       !.contentLength = IF cl # <<>> /\ p.ok /\ p.v >= 0
                                         THEN p.v ELSE r.contentLength,
                       !.header = h,
                       !.conn = r.conn \o HeadBytes(r.proto, statusCode, h),
                       !.heads = r.heads + 1]

\* httpRes4WS.Write with a slice of blen bytes
Write(r, blen) ==
    LET r1 == IF ~r.wroteHeader THEN WriteHeader(r, 200) ELSE r
        r2 == [r1 EXCEPT !.written = r1.written + blen]
    IN  IF r2.contentLength # -1 /\ r2.written > r2.contentLength
        THEN [r2 EXCEPT !.n = 0, !.err = "ErrContentLength"]
        ELSE [r2 EXCEPT !.conn = r2.conn \o Repeat("x", blen),
                        !.body = r2.body + blen,
                        !.n = blen, !.err = "nil"]

\* httpRes4WS.Header: the caller mutates the returned map
ResSetHeader ==
    /\ \E k \in DOMAIN res.header : \E v \in HeaderValues(k) :
          res' = [res EXCEPT !.header[k] = v]
    /\ UNCHANGED <<firstStatus, tlsVars, sshVars, launchVars, log, wsVars>>

ResWriteHeader ==
    /\ \E code \in StatusCodes :
          /\ res' = WriteHeader(res, code)
          /\ firstStatus' = IF firstStatus = 0 THEN code ELSE firstStatus
    /\ UNCHANGED <<tlsVars, sshVars, launchVars, log, wsVars>>

ResWrite ==
    /\ res.calls < MaxResWrites
    /\ \E blen \in 0..MaxBody :
          res' = [Write(res, blen) EXCEPT !.calls = res.calls + 1]
    /\ firstStatus' = IF firstStatus = 0 THEN 200 ELSE firstStatus
    /\ UNCHANGED <<tlsVars, sshVars, launchVars, log, wsVars>>

ResInit == res = newHTTPRes4WS /\ firstStatus = 0

ResIdle == res = newHTTPRes4WS /\ firstStatus = 0

ResNext == ResSetHeader \/ ResWriteHeader \/ ResWrite

-----------------------------------------------------------------------------
(* httpRes4WS: the response head                                           *)

\* index of the "CRLF" closing the header block that starts at s[i], 0 if
\* s[i..] is not a run of "Key: value CRLF" lines followed by an empty line
RECURSIVE HeadEnd(_, _)
HeadEnd(s, i) ==
    IF i > Len(s) THEN 0
    ELSE IF s[i] = "CRLF" THEN i
    ELSE IF i + 1 <= Len(s) /\ s[i] # ": " /\ s[i + 1] = ": "
              /\ \E j \in (i + 2)..Len(s) : s[j] = "CRLF"
         THEN HeadEnd(s, 1 + CHOOSE j \in (i + 2)..Len(s) :
                              /\ s[j] = "CRLF"
                              /\ \A m \in (i + 2)..(j - 1) : s[m] # "CRLF")
         ELSE 0

\* "HTTP/1.1 <code> <reason>" followed by CRLF
StatusLine(code) ==
    <<"HTTP/1.1", " ">> \o FormatInt(code) \o <<" ">>
    \o (IF StatusText(code) = "" THEN <<>> ELSE <<StatusText(code)>>)
    \o <<"CRLF">>

\* s is a well-formed head for `code` followed by exactly nbody body bytes
HeadThenBody(s, code, nbody) ==
    LET sl == StatusLine(code)
        e  == HeadEnd(s, Len(sl) + 1)
    IN  /\ Len(s) >= Len(sl)
        /\ SubSeq(s, 1, Len(sl)) = sl
        /\ e # 0
        /\ SubSeq(s, e + 1, Len(s)) = Repeat("x", nbody)

C10_HeadOnce ==
    /\ res.heads <= 1
    /\ (firstStatus # 0) <=> (res.heads = 1)
    /\ firstStatus = 0 => res.conn = <<>>
    /\ firstStatus # 0 => res.statusCode = firstStatus

C10_ContentLength ==
    /\ res.contentLength >= 0 => res.body <= res.contentLength
    /\ res.err = "ErrContentLength" =>
          /\ res.n = 0
          /\ res.contentLength >= 0
          /\ res.written > res.contentLength

\* C10: for any sequence of Header, WriteHeader and Write calls the head is
\* written exactly once, by the first WriteHeader or with status 200 by the
\* first Write, later WriteHeader calls change nothing, the head is a
\* well-formed HTTP/1.1 head (status line CRLF, header lines each CRLF, empty
\* line) that precedes every body byte, and a Write that would exceed a declared
\* Content-Length writes nothing and returns ErrContentLength.
C10_ResponseHead ==
    /\ C10_HeadOnce
    /\ C10_ContentLength
    /\ firstStatus # 0 => HeadThenBody(res.conn, firstStatus, res.body)

-----------------------------------------------------------------------------
(* getClientTLSConfig, loadCA                                              *)

\* server addresses as configured: host and whether a ":port" follows it
Hosts == {"203.0.113.7", "::1", "example.com"}
Addrs == [host : Hosts, hasPort : BOOLEAN]

\* net.SplitHostPort: the host part; an address without a port is an error,
\* which the caller ignores, and the host is then the empty string
SplitHostPort(addr) == IF addr.hasPort THEN addr.host ELSE ""

\* net.ParseIP(s) != nil
ParseIP(s) == s \in {"203.0.113.7", "::1"}

\* CA bundle paths: none, a good bundle, a path that does not exist, a file
\* that holds no PEM certificate
CAFiles == {"", "ca.pem", "missing.pem", "empty.pem"}

\* ioutil.ReadFile / CertPool.AppendCertsFromPEM on those paths
ReadFileOK(path) == path \in {"ca.pem", "empty.pem"}
AppendCertsFromPEMOK(path) == path = "ca.pem"

\* the roots a pool holds; the nil pool stands for the system roots
SystemRoots == {"rootSys"}
PoolRoots(cp) == IF cp = "nil" THEN SystemRoots ELSE {"rootCA"}

\* loadCA
loadCA(caFile) ==
    IF caFile = "" THEN [cp |-> "nil", err |-> "nil"]
    ELSE IF ~ReadFileOK(caFile) THEN [cp |-> "nil", err |-> "ReadFile"]
    ELSE IF ~AppendCertsFromPEMOK(caFile)
         THEN [cp |-> "nil", err |-> "AppendCertsFromPEM failed"]
    ELSE [cp |-> caFile, err |-> "nil"]

\* getClientTLSConfig
getClientTLSConfig(addr, ca, skipVerify) ==
    LET l == loadCA(ca)
        serverName == SplitHostPort(addr)
    IN  IF l.err # "nil" THEN [config |-> "nil", err |-> l.err]
        ELSE IF ParseIP(serverName)
        THEN [config |-> [ServerName |-> "", RootCAs |-> "nil",
                          InsecureSkipVerify |-> TRUE,
                          VerifyConnection |-> [set |-> TRUE, skipVerify |-> skipVerify,
                                                Roots |-> l.cp, Intermediates |-> "rest"]],
              err |-> "nil"]
        ELSE [config |-> [ServerName |-> serverName, RootCAs |-> l.cp,
                          InsecureSkipVerify |-> skipVerify,
                          VerifyConnection |-> [set |-> FALSE, skipVerify |-> FALSE,
                                                Roots |-> "nil", Intermediates |-> "none"]],
              err |-> "nil"]

\* certificates a server may present: a leaf, optionally followed by one
\* intermediate; a certificate is [subject, issuer, dnsName]
Issuers == {"rootSys", "rootCA", "interA", "unknown"}
Leaves == [subject : {"leaf"}, issuer : Issuers, dnsName : {"example.com", "other.org"}]
Inters == [subject : {"interA"}, issuer : {"rootSys", "rootCA", "unknown"}, dnsName : {""}]
PeerChains == {<<l>> : l \in Leaves} \cup {<<l, i>> : l \in Leaves, i \in Inters}

\* x509.Certificate.Verify(opts): a chain from cert to a root of opts.Roots
\* through opts.Intermediates, and the DNS name when opts.DNSName is set
X509Verify(cert, roots, intermediates, dnsName) ==
    /\ \/ cert.issuer \in PoolRoots(roots)
       \/ \E ic \in intermediates :
             ic.subject = cert.issuer /\ ic.issuer \in PoolRoots(roots)
    /\ dnsName # "" => cert.dnsName = dnsName

Rest(certs) == {certs[i] : i \in 2..Len(certs)}

\* a closure that verifies the leaf without the peer's intermediates
VerifyConnectionLeafOnly(vc, certs) ==
    IF vc.skipVerify THEN TRUE
    ELSE X509Verify(certs[1], vc.Roots, {}, "")

\* the VerifyConnection closure built for an IP literal
VerifyConnection(vc, certs) ==
    IF vc.skipVerify THEN TRUE
    ELSE X509Verify(certs[1], vc.Roots,
                    IF vc.Intermediates = "rest" THEN Rest(certs) ELSE {}, "")

\* crypto/tls client handshake on a config: the built-in verification
\* unless InsecureSkipVerify, then the VerifyConnection callback if set
TLSAccepts(config, certs) ==
    /\ ~config.InsecureSkipVerify =>
          /\ config.ServerName # ""
          /\ X509Verify(certs[1], config.RootCAs, Rest(certs), config.ServerName)
    /\ config.VerifyConnection.set => VerifyConnection(config.VerifyConnection, certs)

TLSInit ==
    /\ tlsIn \in [addr : Addrs, ca : CAFiles, skipVerify : BOOLEAN]
    /\ tlsOut = NotYet
    /\ tlsPeer = NotYet

TLSIdle ==
    /\ tlsIn = [addr |-> [host |-> "example.com", hasPort |-> TRUE], ca |-> "",
                skipVerify |-> FALSE]
    /\ tlsOut = NotYet
    /\ tlsPeer = NotYet

TLSBuild ==
    /\ tlsOut = NotYet
    /\ tlsOut' = getClientTLSConfig(tlsIn.addr, tlsIn.ca, tlsIn.skipVerify)
    /\ UNCHANGED <<tlsIn, tlsPeer, resVars, sshVars, launchVars, log, wsVars>>

TLSHandshake ==
    /\ tlsOut # NotYet
    /\ tlsOut.err = "nil"
    /\ \E certs \in PeerChains :
          tlsPeer' = [chain |-> certs, accepted |-> TLSAccepts(tlsOut.config, certs)]
    /\ UNCHANGED <<tlsIn, tlsOut, resVars, sshVars, launchVars, log, wsVars>>

TLSNext == TLSBuild \/ TLSHandshake

IPLiterals == {"203.0.113.7", "::1"}

\* the leaf of `certs` chains to one of `roots`, directly or through a
\* certificate the peer sent after it
ChainsTo(certs, roots) ==
    \/ certs[1].issuer \in roots
    \/ \E i \in 2..Len(certs) :
          certs[i].subject = certs[1].issuer /\ certs[i].issuer \in roots

\* C5: on the config getClientTLSConfig builds for a host:port address, with
\* skip_verify no server certificate is rejected (IP or domain, CA or none);
\* without it a domain's certificate must chain to the root CAs and carry
\* that domain as its name; without it an IP literal's chain is verified
\* against the root CAs, later peer certificates serving as intermediates,
\* with no server-name check.
C5_TLSVerification ==
    (tlsPeer # NotYet /\ tlsIn.addr.hasPort) =>
        LET roots   == IF tlsIn.ca = "" THEN SystemRoots ELSE {"rootCA"}
            chained == ChainsTo(tlsPeer.chain, roots)
            host    == tlsIn.addr.host
        IN  /\ tlsIn.skipVerify => tlsPeer.accepted
            /\ (~tlsIn.skipVerify /\ host \notin IPLiterals) =>
                   /\ tlsOut.config.ServerName = host
                   /\ tlsPeer.accepted <=> (chained /\ tlsPeer.chain[1].dnsName = host)
            /\ (~tlsIn.skipVerify /\ host \in IPLiterals) =>
                   (tlsPeer.accepted <=> chained)

\* an IP-literal server, verification on, whose leaf is accepted through the
\* intermediate it sent although its name is not the address
C5_Witness ==
    /\ tlsPeer # NotYet
    /\ tlsIn.addr.hasPort /\ tlsIn.addr.host \in IPLiterals
    /\ ~tlsIn.skipVerify /\ tlsIn.ca = "ca.pem"
    /\ Len(tlsPeer.chain) = 2 /\ tlsPeer.chain[1].issuer = "interA"
    /\ tlsPeer.accepted

-----------------------------------------------------------------------------
(* getClientSSHConfit                                                      *)

Usernames == {"", "alice"}
Passwords == {"", "s3cret"}
Passphrases == {"", "open", "wrong"}

\* private-key paths: none, an unencrypted key, a key encrypted with the
\* passphrase "open", a path that does not exist, a file that holds no key
KeyFiles == {"", "id_plain", "id_enc", "id_missing", "id_garbage"}

\* os.ReadFile on those paths
KeyReadOK(key) == key \in {"id_plain", "id_enc", "id_garbage"}

\* ssh.ParsePrivateKey: fails on an encrypted key and on garbage
ParsePrivateKey(key) ==
    IF key = "id_plain" THEN [signer |-> [key |-> key, passphrase |-> ""], err |-> "nil"]
    ELSE [signer |-> "nil", err |-> "parse"]

\* ssh.ParsePrivateKeyWithPassphrase: fails on an unencrypted key, on a wrong
\* passphrase and on garbage
ParsePrivateKeyWithPassphrase(key, passphrase) ==
    IF key = "id_enc" /\ passphrase = "open"
    THEN [signer |-> [key |-> key, passphrase |-> passphrase], err |-> "nil"]
    ELSE [signer |-> "nil", err |-> "parse"]

\* ssh.Password / ssh.PublicKeys
PasswordAuth(password) ==
    [method |-> "password", secret |-> password, signer |-> "nil"]
PublicKeysAuth(signer) ==
    [method |-> "publickey", secret |-> "", signer |-> signer]

\* a config that pins the server's host key instead of accepting every key
NewSSHConfPinned ==
    [User |-> "", Auth |-> <<>>, HostKeyCallback |-> "FixedHostKey"]

\* the ssh.ClientConfig literal getClientSSHConfit starts from
NewSSHConf ==
    [User |-> "", Auth |-> <<>>, HostKeyCallback |-> "InsecureIgnoreHostKey"]

\* getClientSSHConfit; `logged` is what the call writes to the logger
getClientSSHConfit(username, password, key, passphrase) ==
    LET byPass == username # "" /\ password # ""
        conf1  == IF byPass
                  THEN [NewSSHConf EXCEPT !.User = username,
                                          !.Auth = Append(@, PasswordAuth(password))]
                  ELSE NewSSHConf
        parsed == IF passphrase # ""
                  THEN ParsePrivateKeyWithPassphrase(key, passphrase)
                  ELSE ParsePrivateKey(key)
    IN  IF key = "" THEN [conf |-> conf1, err |-> "nil", logged |-> <<>>]
        ELSE IF ~KeyReadOK(key) THEN [conf |-> "nil", err |-> "ReadFile", logged |-> <<>>]
        ELSE IF parsed.err # "nil" THEN [conf |-> "nil", err |-> parsed.err, logged |-> <<>>]
        ELSE [conf |-> [conf1 EXCEPT !.Auth = Append(@, PublicKeysAuth(parsed.signer))],
              err |-> "nil", logged |-> <<>>]

\* host keys a server may present; the callback's verdict on one
HostKeys == {"hk_known", "hk_other"}

HostKeyAccepted(callback, hostKey) ==
    IF callback = "InsecureIgnoreHostKey" THEN TRUE ELSE hostKey = "hk_known"

SSHInit ==
    /\ sshIn \in [username : Usernames, password : Passwords, key : KeyFiles,
                  passphrase : Passphrases]
    /\ sshOut = NotYet
    /\ sshPeer = NotYet
    /\ log = <<>>

SSHIdle ==
    /\ sshIn = [username |-> "", password |-> "", key |-> "", passphrase |-> ""]
    /\ sshOut = NotYet
    /\ sshPeer = NotYet

SSHBuild ==
    /\ sshOut = NotYet
    /\ sshOut' = getClientSSHConfit(sshIn.username, sshIn.password, sshIn.key,
                                    sshIn.passphrase)
    /\ log' = log \o sshOut'.logged
    /\ UNCHANGED <<sshIn, sshPeer, resVars, tlsVars, launchVars, wsVars>>

SSHHostKey ==
    /\ sshOut # NotYet
    /\ sshOut.err = "nil"
    /\ \E hk \in HostKeys :
          sshPeer' = [hostKey |-> hk,
                      accepted |-> HostKeyAccepted(sshOut.conf.HostKeyCallback, hk)]
    /\ UNCHANGED <<sshIn, sshOut, log, resVars, tlsVars, launchVars, wsVars>>

SSHNext == SSHBuild \/ SSHHostKey

\* the key file cannot be read, or cannot be parsed the way the passphrase asks
KeyUnusable(key, passphrase) ==
    \/ ~KeyReadOK(key)
    \/ IF passphrase # "" THEN ParsePrivateKeyWithPassphrase(key, passphrase).err # "nil"
       ELSE ParsePrivateKey(key).err # "nil"

\* the authentication methods the configuration asks for, in order
ExpectedAuth(in) ==
    (IF in.username # "" /\ in.password # ""
     THEN <<[method |-> "password", secret |-> in.password, signer |-> "nil"]>>
     ELSE <<>>)
    \o (IF in.key # ""
        THEN <<[method |-> "publickey", secret |-> "",
                signer |-> [key |-> in.key, passphrase |-> in.passphrase]]>>
        ELSE <<>>)

\* the methods of the returned config are the configured ones, and an
\* unusable key file gives an error and no config
C7_AuthMethods ==
    sshOut # NotYet =>
        IF sshIn.key # "" /\ KeyUnusable(sshIn.key, sshIn.passphrase)
        THEN sshOut.err # "nil" /\ sshOut.conf = "nil"
        ELSE sshOut.err = "nil" /\ sshOut.conf.Auth = ExpectedAuth(sshIn)

\* C7: getClientSSHConfit returns the password method iff username and
\* password are both set, then the public-key method iff a key path is set
\* (parsed with the passphrase when one is given), and the config's user is
\* the configured username whenever it has an authentication method; an
\* unreadable or unparsable key file gives an error and no config.
C7_SSHConfig ==
    /\ C7_AuthMethods
    /\ (sshOut # NotYet /\ sshOut.err = "nil" /\ sshOut.conf.Auth # <<>>) =>
           sshOut.conf.User = sshIn.username

\* C8 as stated: the SSH client config accepts every host key, and a warning
\* is logged whenever that accept-all default is put in place.
C8_AcceptAllWithWarning ==
    /\ sshPeer # NotYet => sshPeer.accepted
    /\ (sshOut # NotYet /\ sshOut.err = "nil") => log # <<>>

\* C8 amended: the SSH client config accepts every host key, and building it
\* logs nothing.
C8_AcceptAllSilently ==
    /\ sshPeer # NotYet => sshPeer.accepted
    /\ (sshOut # NotYet /\ sshOut.err = "nil") =>
           /\ sshOut.conf.HostKeyCallback = "InsecureIgnoreHostKey"
           /\ sshOut.logged = <<>>
           /\ log = <<>>

\* a host key the client has never seen was offered and accepted
C8_Witness ==
    /\ sshPeer # NotYet
    /\ sshPeer.hostKey = "hk_other"
    /\ sshPeer.accepted
    /\ log = <<>>

-----------------------------------------------------------------------------
(* launchClient                                                            *)

Protocols == {"tcp", "http", "https", "ws", "wss", "ssh"}

needsTLS(protocol) == protocol \in {"https", "wss"}

\* the [client] table as unmarshalled
Configs ==
    [Protocol : Protocols,
     Addr : {[host |-> "example.com", hasPort |-> TRUE],
             [host |-> "203.0.113.7", hasPort |-> TRUE]},
     Username : {"alice"}, Password : Passwords,
     CA : {"", "missing.pem"}, SkipVerify : {FALSE},
     Key : {"", "id_plain", "id_missing"}, Passphrase : {""}]

NoConfig ==
    [Protocol |-> "", Addr |-> [host |-> "", hasPort |-> FALSE], Username |-> "",
     Password |-> "", CA |-> "", SkipVerify |-> FALSE, Key |-> "", Passphrase |-> ""]

\* what t.Get("users") holds: nothing, an htpasswd path, a table that
\* unmarshals into a map, a table that does not
UsersValues == {"none", "path", "map", "badmap"}

\* what t.Get("rules") holds: nothing, a rule file that loads, one that does
\* not, a table that yields rules, one that does not unmarshal, one whose
\* rules are rejected
RulesValues == {"none", "file", "badfile", "map", "badmap", "badrules"}

NewClient ==
    [config |-> NoConfig, Verify |-> "nil", Rules |-> "nil", TLSConfig |-> "nil",
     SSHConfig |-> "nil"]

\* a logger call that ends the process with the runtime-error code
FatalfExit2(msg) ==
    /\ log' = Append(log, msg)
    /\ exitCode' = 2
    /\ lpc' = "exited"

\* log.Fatalf: one line to the logger, then os.Exit(1)
Fatalf(msg) ==
    /\ log' = Append(log, msg)
    /\ exitCode' = 1
    /\ lpc' = "exited"

LaunchInit ==
    /\ lpc = "unmarshal"
    /\ cli = NewClient
    /\ exitCode = -1
    /\ failure = "none"
    /\ log = <<>>

LaunchIdle ==
    /\ lpc = "off"
    /\ cli = NewClient
    /\ exitCode = -1
    /\ failure = "none"

\* lines 44-54
LaunchUnmarshal ==
    /\ lpc = "unmarshal"
    /\ \/ /\ Fatalf("Parse '[client]' configuration failed")
          /\ failure' = "config"
          /\ UNCHANGED cli
       \/ /\ \E c \in Configs : cli' = [cli EXCEPT !.config = c]
          /\ lpc' = "users"
          /\ UNCHANGED <<exitCode, log, failure>>
    /\ UNCHANGED <<resVars, tlsVars, sshVars, wsVars>>

\* lines 56-65
LaunchUsers ==
    /\ lpc = "users"
    /\ \E users \in UsersValues :
          IF users = "badmap"
          THEN /\ Fatalf("Parse 'server.users' configuration failed")
               /\ failure' = "config"
               /\ UNCHANGED cli
          ELSE /\ cli' = [cli EXCEPT !.Verify =
                              CASE users = "path" -> "VerifyByHtpasswd"
                                [] users = "map"  -> "VerifyByMap"
                                [] OTHER          -> cli.Verify]
               /\ lpc' = "rules"
               /\ UNCHANGED <<exitCode, log, failure>>
    /\ UNCHANGED <<resVars, tlsVars, sshVars, wsVars>>

\* lines 67-84
LaunchRules ==
    /\ lpc = "rules"
    /\ \E rules \in RulesValues :
          CASE rules = "badfile" ->
                  /\ Fatalf("Load rule file failed")
                  /\ failure' = "config"
                  /\ UNCHANGED cli
            [] rules = "badmap" ->
                  /\ Fatalf("Parse 'client.rules' configuration failed")
                  /\ failure' = "config"
                  /\ UNCHANGED cli
            [] rules = "badrules" ->
                  /\ Fatalf("Load rules file failed")
                  /\ failure' = "config"
                  /\ UNCHANGED cli
            [] OTHER ->
                  /\ cli' = [cli EXCEPT !.Rules =
                                 IF rules = "none" THEN cli.Rules ELSE rules]
                  /\ lpc' = "tls"
                  /\ UNCHANGED <<exitCode, log, failure>>
    /\ UNCHANGED <<resVars, tlsVars, sshVars, wsVars>>

\* lines 86-92
LaunchTLS ==
    /\ lpc = "tls"
    /\ LET c == cli.config
           r == getClientTLSConfig(c.Addr, c.CA, c.SkipVerify)
       IN  IF needsTLS(c.Protocol) /\ r.err # "nil"
           THEN /\ Fatalf("Get TLS configuration failed")
                /\ failure' = "config"
                /\ UNCHANGED cli
           ELSE /\ cli' = [cli EXCEPT !.TLSConfig =
                               IF needsTLS(c.Protocol) THEN r.config ELSE cli.TLSConfig]
                /\ lpc' = "ssh"
                /\ UNCHANGED <<exitCode, log, failure>>
    /\ UNCHANGED <<resVars, tlsVars, sshVars, wsVars>>

\* lines 94-100
LaunchSSH ==
    /\ lpc = "ssh"
    /\ LET c == cli.config
           r == getClientSSHConfit(c.Username, c.Password, c.Key, c.Passphrase)
       IN  IF c.Protocol = "ssh" /\ r.err # "nil"
           THEN /\ Fatalf("Get SSH configuration failed")
                /\ failure' = "config"
                /\ UNCHANGED cli
           ELSE /\ cli' = [cli EXCEPT !.SSHConfig =
                               IF c.Protocol = "ssh" THEN r.conf ELSE cli.SSHConfig]
                /\ lpc' = "serve"
                /\ log' = IF c.Protocol = "ssh" THEN log \o r.logged ELSE log
                /\ UNCHANGED <<exitCode, failure>>
    /\ UNCHANGED <<resVars, tlsVars, sshVars, wsVars>>

\* line 102: cli.Serve() is entered and runs
LaunchServe ==
    /\ lpc = "serve"
    /\ lpc' = "serving"
    /\ UNCHANGED <<cli, exitCode, log, failure, resVars, tlsVars, sshVars, wsVars>>

\* cli.Serve() returns an error and the process ends with code 2
LaunchServeFailedExit2 ==
    /\ lpc = "serving"
    /\ FatalfExit2("Launch client failed")
    /\ failure' = "runtime"
    /\ UNCHANGED <<cli, resVars, tlsVars, sshVars, wsVars>>

\* lines 102-104: cli.Serve() returns an error
LaunchServeFailed ==
    /\ lpc = "serving"
    /\ Fatalf("Launch client failed")
    /\ failure' = "runtime"
    /\ UNCHANGED <<cli, resVars, tlsVars, sshVars, wsVars>>

\* lines 102-105: cli.Serve() returns nil and launchClient returns
LaunchServeReturned ==
    /\ lpc = "serving"
    /\ lpc' = "returned"
    /\ UNCHANGED <<cli, exitCode, log, failure, resVars, tlsVars, sshVars, wsVars>>

LaunchNext ==
    \/ LaunchUnmarshal
    \/ LaunchUsers
    \/ LaunchRules
    \/ LaunchTLS
    \/ LaunchSSH
    \/ LaunchServe
    \/ LaunchServeFailed
    \/ LaunchServeReturned

\* every configuration error ends the process with code 1 before cli.Serve
C6_ConfigErrors ==
    /\ failure = "config" => (exitCode = 1 /\ lpc = "exited")
    /\ lpc \in {"serve", "serving", "returned"} => failure = "none"
    /\ lpc = "exited" => failure # "none"

\* C6 as stated: a configuration error ends the process with code 1 and
\* cli.Serve is never reached after it; an error returned by cli.Serve ends
\* the process with code 2.
C6_ExitCodes ==
    /\ C6_ConfigErrors
    /\ failure = "runtime" => (exitCode = 2 /\ lpc = "exited")

\* C6 amended: an error returned by cli.Serve ends the process with code 1,
\* as every configuration error does.
C6_ExitCodeOne ==
    /\ C6_ConfigErrors
    /\ failure = "runtime" => (exitCode = 1 /\ lpc = "exited")
    /\ exitCode \in {-1, 1}

\* cli.Serve ran and returned an error, and the process has exited
C6_Witness ==
    /\ failure = "runtime"
    /\ lpc = "exited"
    /\ Len(log) = 1

-----------------------------------------------------------------------------
(* wsStripper: Read, Write, handshake                                      *)

MaxReqs == 3        \* HTTP requests the client sends on one connection
MaxConcReqs == 2    \* the same, when two goroutines drive the stripper
MaxInFlight == 2    \* requests and messages sent and not yet read
MaxBytes == 4       \* payload bytes the client sends in all
MaxMsgLen == 3      \* longest message payload
MaxBuf == 2         \* longest buffer handed to Read
MaxWrites == 2      \* Write calls
MaxWriteLen == 1    \* longest buffer handed to Write

WSPath == "/chat"

\* requests as http.ReadRequest parses them; `ok` says whether
\* websocket.Upgrader.Upgrade accepts the request (GET, version 13, a key,
\* nothing already buffered behind it in ioBuf)
UpgradeRequest ==
    [path |-> WSPath, connection |-> "Upgrade", upgrade |-> "websocket", ok |-> TRUE]

\* the upgrade request, one the upgrader refuses, and one request failing
\* each of the three tests of handshake's loop
Requests ==
    { UpgradeRequest,
      [UpgradeRequest EXCEPT !.ok = FALSE],
      [UpgradeRequest EXCEPT !.path = "/wrong"],
      [UpgradeRequest EXCEPT !.connection = "keep-alive"],
      [UpgradeRequest EXCEPT !.upgrade = ""] }

NoReq == [path |-> "", connection |-> "", upgrade |-> "", ok |-> FALSE]

ReqItem(r) == [kind |-> "req", req |-> r, payload |-> <<>>]
MsgItem(p) == [kind |-> "msg", req |-> NoReq, payload |-> p]

\* n consecutive byte values after `from`: every byte sent is distinct
Bytes(from, n) == [i \in 1..n |-> from + i]

Procs == {"r", "w"}

Returned(n, err, hs) == [n |-> n, err |-> err, hs |-> hs]

Upgraded101 == \E i \in 1..Len(out) : out[i].kind = "http101"

WSInit ==
    /\ net = <<>> /\ out = <<>> /\ clientClosed = FALSE
    /\ wsConn = 0 /\ readErr = FALSE /\ buf = <<>>
    /\ pc = [p \in Procs |-> "idle"]
    /\ arg = [p \in Procs |-> IF p = "r" THEN 0 ELSE <<>>]
    /\ last = [p \in Procs |-> Returned(0, "nil", "none")]
    /\ sentBytes = <<>> /\ readBytes = <<>> /\ wlog = <<>> /\ hsLog = <<>>
    /\ upgrades = 0 /\ hsAteFrame = FALSE

WSIdle == WSInit

NotWS == <<resVars, tlsVars, sshVars, launchVars, log>>

\* the client sends an HTTP request
ClientSendRequest(limit) ==
    /\ ~clientClosed
    /\ Cardinality({i \in 1..Len(net) : net[i].kind = "req"}) + Len(hsLog) < limit
    /\ Len(net) < MaxInFlight
    /\ \E r \in Requests : net' = Append(net, ReqItem(r))
    /\ UNCHANGED <<out, clientClosed, wsConn, readErr, buf, pc, arg, last, sentBytes,
                   readBytes, wlog, hsLog, upgrades, hsAteFrame, NotWS>>

\* the client, having seen 101, sends one binary message
ClientSendMessage ==
    /\ ~clientClosed
    /\ Upgraded101
    /\ Len(net) < MaxInFlight
    /\ \E n \in 0..MaxMsgLen :
          /\ Len(sentBytes) + n <= MaxBytes
          /\ n = 0 => \A i \in 1..Len(net) : net[i].payload # <<>> \/ net[i].kind = "req"
          /\ net' = Append(net, MsgItem(Bytes(Len(sentBytes), n)))
          /\ sentBytes' = sentBytes \o Bytes(Len(sentBytes), n)
    /\ UNCHANGED <<out, clientClosed, wsConn, readErr, buf, pc, arg, last,
                   readBytes, wlog, hsLog, upgrades, hsAteFrame, NotWS>>

ClientClose ==
    /\ ~clientClosed
    /\ clientClosed' = TRUE
    /\ UNCHANGED <<net, out, wsConn, readErr, buf, pc, arg, last, sentBytes,
                   readBytes, wlog, hsLog, upgrades, hsAteFrame, NotWS>>

\* a test that looks at the path and the Upgrade header only
RejectedIgnoringConnection(req) ==
    \/ req.path # WSPath
    \/ req.upgrade # "websocket"

\* the test at the top of the handshake loop: the request is not an upgrade
\* request for the configured path
Rejected(req) ==
    \/ req.path # WSPath
    \/ req.connection # "Upgrade"
    \/ req.upgrade # "websocket"

Resp(kind, data) == [kind |-> kind, data |-> data]

\* a rejection that answers nothing
Write404Nothing(o) == o

\* http404Response().Write(w.Conn)
Write404(o) == Append(o, Resp("http404", <<>>))

\* what Upgrade sends through the httpRes4WS when it refuses a request:
\* http.Error sets a header, calls WriteHeader(400) and writes the text
UpgradeRefusal ==
    Write(WriteHeader([newHTTPRes4WS EXCEPT !.header["Content-Type"] = <<"text">>], 400),
          MaxBody).conn

\* a writer that sends nothing for an empty buffer
WriteMessageSkipEmpty(o, b) == IF b = <<>> THEN o ELSE Append(o, Resp("binary", b))

\* wsConn.WriteMessage(websocket.BinaryMessage, b)
WriteMessage(o, b) == Append(o, Resp("binary", b))

\* copy(b, p): the bytes that fit a buffer of blen bytes
Copied(blen, p) == SubSeq(p, 1, Min(blen, Len(p)))

\* staging the whole message instead of its tail
StagedWhole(staging, p, n) == staging \o p

\* w.buf.Write(p[n:])
Staged(staging, p, n) == staging \o SubSeq(p, n + 1, Len(p))

\* Read is called with a buffer of blen bytes; w.wsConn == nil is tested
ReadCall(p, alone) ==
    /\ p = "r" /\ pc[p] = "idle"
    /\ alone => \A q \in Procs : pc[q] = "idle"
    /\ \E blen \in 1..MaxBuf : arg' = [arg EXCEPT ![p] = blen]
    /\ pc' = [pc EXCEPT ![p] = IF wsConn = 0 THEN "handshake" ELSE "body"]
    /\ last' = [last EXCEPT ![p] = Returned(0, "nil", "none")]
    /\ UNCHANGED <<net, out, clientClosed, wsConn, readErr, buf, sentBytes,
                   readBytes, wlog, hsLog, upgrades, hsAteFrame, NotWS>>

\* Write is called with b; w.wsConn == nil is tested
WriteCall(p, alone) ==
    /\ p = "w" /\ pc[p] = "idle"
    /\ alone => \A q \in Procs : pc[q] = "idle"
    /\ Len(wlog) < MaxWrites
    /\ \E n \in 0..MaxWriteLen : arg' = [arg EXCEPT ![p] = Bytes(10 * Len(wlog), n)]
    /\ pc' = [pc EXCEPT ![p] = IF wsConn = 0 THEN "handshake" ELSE "body"]
    /\ last' = [last EXCEPT ![p] = Returned(0, "nil", "none")]
    /\ UNCHANGED <<net, out, clientClosed, wsConn, readErr, buf, sentBytes,
                   readBytes, wlog, hsLog, upgrades, hsAteFrame, NotWS>>

\* the call returns (0, err) from its handshake; w.wsConn was assigned nil
HandshakeFailed(p, err) ==
    /\ wsConn' = 0
    /\ pc' = [pc EXCEPT ![p] = "idle"]
    /\ last' = [last EXCEPT ![p] = Returned(0, err, "failed")]
    /\ wlog' = IF p = "w" THEN Append(wlog, [b |-> arg[p], n |-> 0, err |-> err])
               ELSE wlog

\* one turn of handshake's loop: http.ReadRequest, then 404 or Upgrade and
\* the assignment of its result to w.wsConn
Handshake(p) ==
    /\ pc[p] = "handshake"
    /\ \/ /\ net = <<>> /\ clientClosed
          /\ HandshakeFailed(p, "EOF")
          /\ UNCHANGED <<net, out, readErr, hsLog, upgrades, hsAteFrame>>
       \/ /\ net # <<>> /\ Head(net).kind = "msg"
          /\ net' = Tail(net)
          /\ hsAteFrame' = TRUE
          /\ HandshakeFailed(p, "malformed")
          /\ UNCHANGED <<out, readErr, hsLog, upgrades>>
       \/ /\ net # <<>> /\ Head(net).kind = "req"
          /\ net' = Tail(net)
          /\ LET req == Head(net).req IN
             IF Rejected(req)
             THEN /\ out' = Write404(out)
                  /\ hsLog' = Append(hsLog, [req |-> req, passed |-> FALSE])
                  /\ UNCHANGED <<wsConn, readErr, pc, last, wlog, upgrades, hsAteFrame>>
             ELSE /\ hsLog' = Append(hsLog, [req |-> req, passed |-> TRUE])
                  /\ IF req.ok
                     THEN /\ out' = Append(out, Resp("http101", <<>>))
                          /\ upgrades' = upgrades + 1
                          /\ wsConn' = upgrades + 1
                          /\ readErr' = FALSE
                          /\ pc' = [pc EXCEPT ![p] = "body"]
                          /\ last' = [last EXCEPT ![p] = Returned(0, "nil", "done")]
                          /\ UNCHANGED <<wlog, hsAteFrame>>
                     ELSE /\ out' = Append(out, Resp("raw", UpgradeRefusal))
                          /\ HandshakeFailed(p, "upgrade")
                          /\ UNCHANGED <<readErr, upgrades, hsAteFrame>>
    /\ UNCHANGED <<clientClosed, buf, arg, sentBytes, readBytes, NotWS>>

\* the rest of Read: from the staging buffer, else one ReadMessage
ReadBody(p) ==
    /\ p = "r" /\ pc[p] = "body"
    /\ \/ /\ buf # <<>>
          /\ LET data == Copied(arg[p], buf) IN
                /\ buf' = SubSeq(buf, Len(data) + 1, Len(buf))
                /\ readBytes' = readBytes \o data
                /\ last' = [last EXCEPT ![p] = Returned(Len(data), "nil", last[p].hs)]
          /\ pc' = [pc EXCEPT ![p] = "idle"]
          /\ UNCHANGED <<net, readErr>>
       \/ /\ buf = <<>> /\ wsConn = 0
          /\ pc' = [pc EXCEPT ![p] = "panic"]
          /\ UNCHANGED <<net, readErr, buf, readBytes, last>>
       \/ /\ buf = <<>> /\ wsConn # 0
          /\ \/ /\ readErr
                /\ last' = [last EXCEPT ![p] = Returned(0, "read", last[p].hs)]
                /\ UNCHANGED <<net, readErr, buf, readBytes>>
             \/ /\ ~readErr /\ net = <<>> /\ clientClosed
                /\ readErr' = TRUE
                /\ last' = [last EXCEPT ![p] = Returned(0, "read", last[p].hs)]
                /\ UNCHANGED <<net, buf, readBytes>>
             \/ /\ ~readErr /\ net # <<>> /\ Head(net).kind = "req"
                /\ net' = Tail(net)
                /\ readErr' = TRUE
                /\ last' = [last EXCEPT ![p] = Returned(0, "read", last[p].hs)]
                /\ UNCHANGED <<buf, readBytes>>
             \/ /\ ~readErr /\ net # <<>> /\ Head(net).kind = "msg"
                /\ net' = Tail(net)
                /\ LET m    == Head(net).payload
                       data == Copied(arg[p], m)
                   IN  /\ buf' = Staged(buf, m, Len(data))
                       /\ readBytes' = readBytes \o data
                       /\ last' = [last EXCEPT ![p] =
                                       Returned(Len(data), "nil", last[p].hs)]
                /\ UNCHANGED readErr
          /\ pc' = [pc EXCEPT ![p] = "idle"]
    /\ UNCHANGED <<out, clientClosed, wsConn, arg, sentBytes, wlog, hsLog, upgrades,
                   hsAteFrame, NotWS>>

\* the rest of Write: one WriteMessage, which the network may fail
WriteBody(p) ==
    /\ p = "w" /\ pc[p] = "body"
    /\ \/ /\ wsConn = 0
          /\ pc' = [pc EXCEPT ![p] = "panic"]
          /\ UNCHANGED <<out, last, wlog>>
       \/ /\ wsConn # 0
          /\ out' = WriteMessage(out, arg[p])
          /\ last' = [last EXCEPT ![p] = Returned(Len(arg[p]), "nil", last[p].hs)]
          /\ wlog' = Append(wlog, [b |-> arg[p], n |-> Len(arg[p]), err |-> "nil"])
          /\ pc' = [pc EXCEPT ![p] = "idle"]
       \/ /\ wsConn # 0
          /\ last' = [last EXCEPT ![p] = Returned(0, "write", last[p].hs)]
          /\ wlog' = Append(wlog, [b |-> arg[p], n |-> 0, err |-> "write"])
          /\ pc' = [pc EXCEPT ![p] = "idle"]
          /\ UNCHANGED out
    /\ UNCHANGED <<net, clientClosed, wsConn, readErr, buf, arg, sentBytes, readBytes,
                   hsLog, upgrades, hsAteFrame, NotWS>>

\* one goroutine drives the stripper: calls do not overlap
WSNext ==
    \/ ClientSendRequest(MaxReqs)
    \/ ClientSendMessage
    \/ ClientClose
    \/ \E p \in Procs : ReadCall(p, TRUE)
    \/ \E p \in Procs : WriteCall(p, TRUE)
    \/ \E p \in Procs : Handshake(p)
    \/ \E p \in Procs : ReadBody(p)
    \/ \E p \in Procs : WriteBody(p)

\* the stripper is only read from
WSNextRead ==
    \/ ClientSendRequest(MaxReqs)
    \/ ClientSendMessage
    \/ ClientClose
    \/ ReadCall("r", TRUE)
    \/ Handshake("r")
    \/ ReadBody("r")

\* the stripper is only written to
WSNextWrite ==
    \/ ClientSendRequest(MaxReqs)
    \/ ClientClose
    \/ WriteCall("w", TRUE)
    \/ Handshake("w")
    \/ WriteBody("w")

\* a reading and a writing goroutine drive the stripper concurrently
WSNextConc ==
    \/ ClientSendRequest(MaxConcReqs)
    \/ ClientSendMessage
    \/ ClientClose
    \/ \E p \in Procs : ReadCall(p, FALSE)
    \/ \E p \in Procs : WriteCall(p, FALSE)
    \/ \E p \in Procs : Handshake(p)
    \/ \E p \in Procs : ReadBody(p)
    \/ \E p \in Procs : WriteBody(p)

RECURSIVE Payloads(_)
Payloads(items) ==
    IF items = <<>> THEN <<>> ELSE Head(items).payload \o Payloads(Tail(items))

\* C1: the bytes returned by successive Read calls, then the staged tail,
\* then the payloads of the messages still unread are exactly the payload
\* bytes the client sent, in order: nothing is lost, duplicated or reordered,
\* a staged tail goes out before any later message, and a Read returns at
\* most len(b) bytes.
C1_ReadPreservesStream ==
    /\ sentBytes = readBytes \o buf \o Payloads(net)
    /\ pc["r"] = "idle" => last["r"].n <= arg["r"]
    /\ readBytes # <<>> => upgrades = 1

\* the tail of a message is staged while a later message waits unread
C1_Witness ==
    /\ buf # <<>>
    /\ readBytes # <<>>
    /\ \E i \in 1..Len(net) : net[i].kind = "msg" /\ net[i].payload # <<>>

Responses == SelectSeq(out, LAMBDA o : o.kind # "binary")

C3_KeyedOnPathAndUpgrade ==
    /\ Len(Responses) = Len(hsLog)
    /\ \A i \in 1..Len(hsLog) :
          /\ hsLog[i].passed <=>
                (hsLog[i].req.path = WSPath /\ hsLog[i].req.upgrade = "websocket")
          /\ ~hsLog[i].passed => Responses[i].kind = "http404"

\* C3 amended: a request goes on to the upgrade iff its path is the
\* configured WSPath, its Connection header is exactly "Upgrade" and its
\* Upgrade header is exactly "websocket"; every other request gets 404.
C3_KeyedOnPathConnectionUpgrade ==
    /\ Len(Responses) = Len(hsLog)
    /\ \A i \in 1..Len(hsLog) :
          /\ hsLog[i].passed <=>
                /\ hsLog[i].req.path = WSPath
                /\ hsLog[i].req.connection = "Upgrade"
                /\ hsLog[i].req.upgrade = "websocket"
          /\ ~hsLog[i].passed => Responses[i].kind = "http404"

\* a request for the path with Upgrade: websocket but another Connection
\* header got 404, and a later one with all three was passed on
C3_Witness ==
    \E i, j \in 1..Len(hsLog) :
        /\ i < j
        /\ hsLog[i].req.path = WSPath /\ hsLog[i].req.upgrade = "websocket"
        /\ hsLog[i].req.connection # "Upgrade"
        /\ ~hsLog[i].passed /\ Responses[i].kind = "http404"
        /\ hsLog[j].passed

Binaries == SelectSeq(out, LAMBDA o : o.kind = "binary")

Succeeded == SelectSeq(wlog, LAMBDA e : e.err = "nil")

\* C4: the binary messages on the connection are, in order, the buffers of
\* the Write calls that succeeded, one message per call; a successful call
\* returns len(b), a failing one 0; nothing is framed before the upgrade.
C4_OneMessagePerWrite ==
    /\ Len(Binaries) = Len(Succeeded)
    /\ \A i \in 1..Len(Succeeded) : Binaries[i].data = Succeeded[i].b
    /\ \A i \in 1..Len(wlog) :
          IF wlog[i].err = "nil" THEN wlog[i].n = Len(wlog[i].b) ELSE wlog[i].n = 0
    /\ \A i \in 1..Len(out) : out[i].kind \in {"http404", "http101", "raw", "binary"}
    /\ Binaries # <<>> => upgrades = 1

\* two Write calls succeeded, one of them with an empty buffer
C4_Witness ==
    /\ Len(Succeeded) = 2
    /\ Len(Binaries) = 2
    /\ \E i \in 1..2 : Succeeded[i].b = <<>>
    /\ \E i \in 1..2 : Succeeded[i].b # <<>>

\* C9: under any interleaving of Read and Write the handshake succeeds at
\* most once, no frame is read or written before a handshake has succeeded, and
\* a call whose handshake fails returns (0, err) without having read or
\* written a frame.
C9_HandshakeOnce ==
    /\ upgrades <= 1
    /\ (readBytes # <<>> \/ Binaries # <<>>) => upgrades >= 1
    /\ ~hsAteFrame
    /\ \A p \in Procs :
          (pc[p] = "idle" /\ last[p].hs = "failed") =>
              (last[p].n = 0 /\ last[p].err # "nil")

\* ---- specifications ----

InitRes == ResInit /\ TLSIdle /\ SSHIdle /\ LaunchIdle /\ WSIdle /\ log = <<>>

InitTLS == TLSInit /\ ResIdle /\ SSHIdle /\ LaunchIdle /\ WSIdle /\ log = <<>>

InitSSH == SSHInit /\ ResIdle /\ TLSIdle /\ LaunchIdle /\ WSIdle

InitLaunch == LaunchInit /\ ResIdle /\ TLSIdle /\ SSHIdle /\ WSIdle

Init == WSInit /\ ResIdle /\ TLSIdle /\ SSHIdle /\ LaunchIdle /\ log = <<>>

SpecRead == Init /\ [][WSNextRead]_vars

SpecWrite == Init /\ [][WSNextWrite]_vars

SpecSeq == Init /\ [][WSNext]_vars

SpecConc == Init /\ [][WSNextConc]_vars

SpecRes == InitRes /\ [][ResNext]_vars

SpecTLS == InitTLS /\ [][TLSNext]_vars

SpecSSH == InitSSH /\ [][SSHNext]_vars

SpecLaunch == InitLaunch /\ [][LaunchNext]_vars

====
